---- MODULE Spec2Model ----
(***************************************************************************)
(* A model of the artifact lifecycle and response dispatch of              *)
(* gemini_bot.py: the per-user working area (temp/) and transcript area    *)
(* (history/) kept by FileManager, the delivery-mode choice of             *)
(* ResponseHandler.process_response, the format selection of               *)
(* send_file_response, the /clear and /history commands and the two        *)
(* scheduled clean-up jobs of GeminiTelegramBot.                            *)
(*                                                                         *)
(* Time is the wall clock in seconds.  Handlers are the coroutines of one  *)
(* event loop and updates are processed one at a time.  The transport call *)
(* a handler awaits changes no state of the program, so a handler is one   *)
(* step whose input says whether that call returned or raised.             *)
(***************************************************************************)
EXTENDS Integers, FiniteSets, Sequences, TLC

\* ----------------------------------------------------------------- constants

MAX_TEXT_RESPONSE == 500

MAX_TOTAL_CHARS == 6000

TEMP_FILE_LIFETIME == 3600

\* the second threshold of process_response (elif len(response_text) <= 1000)
MEDIUM_RESPONSE == 1000

\* get_user_temp_dir: cleanup_dir(temp_dir, max_age_seconds=3600)
ON_ACCESS_MAX_AGE == 3600

\* cleanup_temp_files: cleanup_all_old_files(max_age_hours=3)
TEMP_SWEEP_HOURS == 3

\* daily_cleanup: cleanup_all_old_files(max_age_hours=24)
DAILY_SWEEP_HOURS == 24

\* cleanup_all_old_files: file_age.total_seconds() > (7 * 24 * 3600)
HISTORY_MAX_AGE == 7 * 24 * 3600

\* setup_scheduler: run_repeating(interval=10800, first=10)
SWEEP_INTERVAL == 10800

SWEEP_FIRST == 10

\* ----------------------------------------------------------------- bounds

\* clock advances in a behaviour
MaxTicks == 2

\* exchanges dispatched in a behaviour, over all users
MaxExchanges == 2

\* create_temp_file calls in a behaviour
MaxCreates == 2

Users == {1, 2}

\* the clock advances by half an hour, one hour or eight days (seconds): after
\* two advances a file is younger than, exactly as old as or older than the
\* max-age of the on-access sweep (1 hour), and younger or older than the
\* max-ages of the scheduled sweeps (3 hours, 24 hours) and of the transcript
\* area (7 days)
Steps == {1800, 3600, 691200}

\* answers, by what process_response reads of them: the length and whether
\* the text contains a line break
Lens == {500, 700, 1000, 5000}

Answers ==
    {[len |-> l, nl |-> b] : l \in Lens, b \in BOOLEAN}
        \ {[len |-> 1000, nl |-> FALSE], [len |-> 5000, nl |-> TRUE]}

\* context.user_data.get("last_response", "") when nothing is stored.  A stored
\* answer text is named by the number of the exchange of its user that
\* produced it (the answers of this model are never empty)
NoPending == 0

\* nextSweep when the job queue's timing is left open
Unscheduled == -1

\* context.bot_data as __init__ leaves it: "registered_users" an empty set,
\* "warned_users" an empty dictionary
NoBotData == [registered |-> {}, warned |-> {}]

VARIABLES
    now,        \* datetime.datetime.now(), in seconds
    ticks,      \* clock advances so far
    created,    \* create_temp_file calls so far: the clock has moved on between
                \* two calls, so each call reads another %f (microsecond) part
    temp,       \* user -> working area  <base>/user_<id>/temp
    hist,       \* user -> the files of the transcript area <base>/user_<id>/history
    nex,        \* user -> exchanges dispatched so far
    pending,    \* user -> context.user_data["last_response"]
    conv,       \* user -> exchanges held in context.chat_data["conversation"]
                \* of the user's private chat
    faulty,     \* whether filesystem writes may fail
    sweepFaults, \* whether stat and unlink may fail during a sweep
    clockRepeats, \* whether datetime.datetime.now() may return a reading it
                \* has returned before (the wall clock is not monotonic)
    nextSweep,  \* due time of the repeating temp_files_cleanup job
    botData,    \* context.bot_data: the users in "registered_users" and the
                \* users with a count in "warned_users"
    groupConv,  \* context.chat_data["conversation"] of the group chat: the
                \* entries, each with its role and the user whose message it
                \* came from
    warnings,   \* user -> registration warnings sent to the user in the group
                \* chat so far
    ev          \* the last step taken: the operation, the user it was for and
                \* what it reported or did

vars == <<now, ticks, created, temp, hist, nex, pending, conv, faulty, sweepFaults,
          clockRepeats, nextSweep, botData, groupConv, warnings, ev>>

\* ----------------------------------------------------------------- files

NoDir == [exists |-> FALSE, files |-> {}]

EmptyDir == [exists |-> TRUE, files |-> {}]

\* mkdir(exist_ok=True)
Mkdir(dir) == [exists |-> TRUE, files |-> dir.files]

\* file_age = now - mtime
Age(f, t) == t - f.mtime

\* FileManager.cleanup_dir: the files that remain
CleanupDir(files, t, maxAge) == {f \in files : ~(Age(f, t) > maxAge)}

\* FileManager.get_user_temp_dir: mkdir, then sweep the directory
GetUserTempDir(dir, t) ==
    [exists |-> TRUE, files |-> CleanupDir(dir.files, t, ON_ACCESS_MAX_AGE)]

\* FileManager.create_temp_file: the name f"{prefix}{timestamp}.{extension}"
\* with timestamp strftime('%Y%m%d_%H%M%S_%f')
TempName(prefix, ext, t, us) == <<prefix, t, us, ext>>

TempFile(prefix, ext, t, us) ==
    [name |-> TempName(prefix, ext, t, us), mtime |-> t]

\* open(path, 'w') ... write: a file of that name is replaced
WriteFile(files, f) == {g \in files : g.name # f.name} \cup {f}

\* ResponseHandler._save_to_history: session_<%Y%m%d_%H%M%S>.txt
HistoryFile(t, ex) == [name |-> <<"session_", t, "txt">>, mtime |-> t, ex |-> ex]

\* the try block either writes the record or raises and is logged
SaveToHistory(files, t, ex, ok) ==
    IF ok THEN WriteFile(files, HistoryFile(t, ex)) ELSE files

\* cleanup_user_files removing the working areas under the base directory
\* instead of the one under the user's directory
CleanupUserFilesAllUsers(t, u) == [v \in Users |-> EmptyDir]

\* cleanup_user_files without the mkdir after rmtree
CleanupUserFilesNoMkdir(t, u) == [t EXCEPT ![u] = NoDir]

\* FileManager.cleanup_user_files: rmtree(temp) and mkdir(temp)
CleanupUserFiles(t, u) == [t EXCEPT ![u] = EmptyDir]

\* cleanup_all_old_files handing max_age_hours to cleanup_dir as seconds
SweepAllTempHoursAsSeconds(t, nowT, hours) ==
    [u \in Users |->
        IF t[u].exists
        THEN [exists |-> TRUE, files |-> CleanupDir(t[u].files, nowT, hours)]
        ELSE t[u]]

\* cleanup_all_old_files taking max_age_hours for days
SweepAllTempHoursAsDays(t, nowT, hours) ==
    [u \in Users |->
        IF t[u].exists
        THEN [exists |-> TRUE, files |-> CleanupDir(t[u].files, nowT, hours * 86400)]
        ELSE t[u]]

\* FileManager.cleanup_all_old_files, the working areas
SweepAllTemp(t, nowT, hours) ==
    [u \in Users |->
        IF t[u].exists
        THEN [exists |-> TRUE, files |-> CleanupDir(t[u].files, nowT, hours * 3600)]
        ELSE t[u]]

\* cleanup_all_old_files pruning the transcript areas with the max-age of the
\* working area
PruneAllHistoryTempAge(h, nowT) ==
    [u \in Users |-> {f \in h[u] : ~(Age(f, nowT) > ON_ACCESS_MAX_AGE)}]

\* FileManager.cleanup_all_old_files, the transcript areas
PruneAllHistory(h, nowT) ==
    [u \in Users |-> {f \in h[u] : ~(Age(f, nowT) > HISTORY_MAX_AGE)}]

\* the working-area files of a that b no longer holds
RemovedTemp(a, b) ==
    UNION {{<<u, f>> : f \in a[u].files \ b[u].files} : u \in Users}

\* the transcript records of a that b no longer holds
RemovedHist(a, b) ==
    UNION {{<<u, f>> : f \in a[u] \ b[u]} : u \in Users}

\* ----------------------------------------------------------------- dispatch

\* process_response with < for <= in both tests
ModeOfStrict(a) ==
    IF a.len < MAX_TEXT_RESPONSE /\ a.nl THEN "CHUNKED"
    ELSE IF a.len < MEDIUM_RESPONSE THEN "INLINE"
    ELSE "OFFERED"

\* process_response with MAX_TEXT_RESPONSE as the limit of the inline branch
ModeOfShortInline(a) ==
    IF a.len <= MAX_TEXT_RESPONSE /\ a.nl THEN "CHUNKED"
    ELSE IF a.len <= MAX_TEXT_RESPONSE THEN "INLINE"
    ELSE "OFFERED"

\* ResponseHandler.process_response: the branch taken
ModeOf(a) ==
    IF a.len <= MAX_TEXT_RESPONSE /\ a.nl THEN "CHUNKED"
    ELSE IF a.len <= MEDIUM_RESPONSE THEN "INLINE"
    ELSE "OFFERED"

\* the outcomes of a filesystem write
WriteOutcomes == IF faulty THEN BOOLEAN ELSE {TRUE}

\* _save_to_history without its try/except: a write that fails raises out of
\* process_response before the branch on the answer
ProcessResponseWriteRaises(files, a, t, ex, wok, dok) ==
    [hist |-> SaveToHistory(files, t, ex, wok), writes |-> 1,
     mode |-> IF wok THEN ModeOf(a) ELSE "NONE", delivered |-> wok /\ dok]

\* process_response with the transcript write after the delivery: a delivery
\* that raises leaves process_response before the write
ProcessResponseWriteLast(files, a, t, ex, wok, dok) ==
    [hist |-> IF dok THEN SaveToHistory(files, t, ex, wok) ELSE files,
     writes |-> IF dok THEN 1 ELSE 0, mode |-> ModeOf(a), delivered |-> dok]

\* ResponseHandler.process_response: the transcript write comes first, then
\* the branch on the answer and the awaited delivery, which returns (dok) or
\* raises out of process_response
ProcessResponse(files, a, t, ex, wok, dok) ==
    [hist |-> SaveToHistory(files, t, ex, wok), writes |-> 1, mode |-> ModeOf(a),
     delivered |-> dok]

\* process_response keeping the answer stored first: a later answer is not
\* stored while one is pending
StorePendingKeepFirst(p, u, ex) ==
    IF p[u] = NoPending THEN [p EXCEPT ![u] = ex] ELSE p

\* process_response storing nothing
StorePendingNone(p, u, ex) == p

\* process_response: context.user_data["last_response"] = response_text (and
\* last_query), in the user_data of the user of the update
StorePending(p, u, ex) == [p EXCEPT ![u] = ex]

\* context.chat_data["conversation"] holds 10 entries, 5 exchanges, at most
MAX_CONTEXT == 5

\* get_gemini_response puts the last 6 entries, 3 exchanges, in the prompt
PROMPT_CONTEXT == 3

\* get_gemini_response: the earlier exchanges the prompt contains
PromptExchanges(c, u) == IF c[u] <= PROMPT_CONTEXT THEN c[u] ELSE PROMPT_CONTEXT

\* get_gemini_response: the question and the answer are appended and the last
\* 10 entries kept
AppendExchange(c, u) ==
    [c EXCEPT ![u] = IF @ + 1 <= MAX_CONTEXT THEN @ + 1 ELSE MAX_CONTEXT]

\* clear_command / clear_history: context.chat_data.clear()
ClearChatData(c, u) == [c EXCEPT ![u] = 0]

\* clear keeping context.user_data
ClearUserDataKeeps(p, u) == p

\* clear_command / clear_history: context.user_data.clear()
ClearUserData(p, u) == [p EXCEPT ![u] = NoPending]

\* ----------------------------------------------------------------- documents

\* HTMLGenerator.create_html_from_markdown: save_html creates the location
\* (create_temp_file, which sweeps the working area) and writes the page
CreateHtml(dir, t, us, ok) ==
    LET d1 == GetUserTempDir(dir, t)
        f  == TempFile("html_response_", "html", t, us)
    IN  IF ok THEN [dir |-> [exists |-> TRUE, files |-> WriteFile(d1.files, f)],
                    made |-> TRUE]
        ELSE [dir |-> d1, made |-> FALSE]

\* PDFGenerator.create_pdf_from_markdown: save_markdown writes the source,
\* create_temp_file names the document, the rendering either raises (the
\* source stays) or writes the document and unlinks the source
CreatePdf(dir, t, us, ok) ==
    LET d1  == GetUserTempDir(dir, t)
        md  == TempFile("md_source_", "md", t, us)
        d2  == [exists |-> TRUE, files |-> WriteFile(d1.files, md)]
        d3  == GetUserTempDir(d2, t)
        pdf == TempFile("pdf_", "pdf", t, us + 1)
    IN  IF ok THEN [dir |-> [exists |-> TRUE,
                             files |-> WriteFile(d3.files, pdf) \ {md}],
                    made |-> TRUE]
        ELSE [dir |-> d3, made |-> FALSE]

\* the %f parts create_temp_file can read: one not read before, or, with a
\* clock that repeats, also one that an earlier call has read
UsecReadings == IF clockRepeats THEN 0 .. created ELSE {created}

\* whether the location create_temp_file returns names no file of the directory
FreshLocation(fmt, dir, t, us) ==
    LET name == IF fmt = "html" THEN TempName("html_response_", "html", t, us)
                ELSE TempName("pdf_", "pdf", t, us + 1)
    IN  \A g \in GetUserTempDir(dir, t).files : g.name # name

\* create_temp_file calls of one build
Creates(fmt) == IF fmt = "html" THEN 1 ELSE 2

CreateDocument(fmt, dir, t, us, ok) ==
    IF fmt = "html" THEN CreateHtml(dir, t, us, ok) ELSE CreatePdf(dir, t, us, ok)

\* send_file_response dropping the stored answer when no document is sent
PendingAfterSelectDrops(p, u, result) ==
    IF result = "made" THEN p ELSE [p EXCEPT ![u] = NoPending]

\* send_file_response reads context.user_data and stores nothing in it
PendingAfterSelect(p, u, result) == p

\* send_file_response, after the build: the document is sent ("made"), the
\* build returned None and the user is told so ("failed"), or send_document
\* raised and the user is told the error ("error")
SendFileResult(made, sok) ==
    IF ~made THEN "failed" ELSE IF sok THEN "made" ELSE "error"

\* what the user is sent with each result
ReplyOf(result) ==
    CASE result = "made" -> "document"
      [] result = "failed" -> "failureMessage"
      [] result = "error" -> "failureMessage"
      [] result = "notFound" -> "notFoundMessage"

\* history_command: history_dir.glob("*.txt")
HistoryListing(files) == {f \in files : f.name[3] = "txt"}

\* ----------------------------------------------------------------- actions

RECURSIVE SumOver(_, _)
SumOver(f, S) ==
    IF S = {} THEN 0
    ELSE LET x == CHOOSE y \in S : TRUE IN f[x] + SumOver(f, S \ {x})

TotalExchanges == SumOver(nex, Users)

Init ==
    /\ now = 0
    /\ ticks = 0
    /\ created = 0
    /\ temp = [u \in Users |-> NoDir]
    /\ hist = [u \in Users |-> {}]
    /\ nex = [u \in Users |-> 0]
    /\ pending = [u \in Users |-> NoPending]
    /\ conv = [u \in Users |-> 0]
    /\ faulty = FALSE
    /\ sweepFaults = FALSE
    /\ clockRepeats = FALSE
    /\ botData = NoBotData
    /\ groupConv = <<>>
    /\ warnings = [u \in Users |-> 0]
    /\ nextSweep = Unscheduled
    /\ ev = [op |-> "init", user |-> 0]

\* GeminiTelegramBot.handle_message: get_gemini_response returns answer a,
\* process_response stores it as the pending response, writes the transcript
\* and delivers in the mode chosen
HandleMessage(u, a, wok, dok) ==
    /\ TotalExchanges < MaxExchanges
    /\ wok \in WriteOutcomes
    /\ LET r == ProcessResponse(hist[u], a, now, nex[u] + 1, wok, dok)
       IN  /\ hist' = [hist EXCEPT ![u] = r.hist]
           /\ ev' = [op |-> "dispatch", user |-> u, ans |-> a, mode |-> r.mode,
                     context |-> PromptExchanges(conv, u),
                     writes |-> r.writes, wrote |-> wok, delivered |-> r.delivered]
    /\ pending' = StorePending(pending, u, nex[u] + 1)
    /\ nex' = [nex EXCEPT ![u] = @ + 1]
    /\ UNCHANGED <<now, ticks, created, temp, faulty, sweepFaults, clockRepeats, botData, groupConv, warnings, nextSweep>>
    /\ conv' = AppendExchange(conv, u)

\* what the step before was, for the user of a format selection
After(u) ==
    IF ev.op = "clear" /\ ev.user = u THEN "clear"
    ELSE IF ev.op = "daily" THEN "daily"
    ELSE IF ev.op = "select" /\ ev.user = u /\ ev.result \in {"failed", "error"}
         THEN "failure"
    ELSE "other"

\* button_callback "format_<fmt>" -> ResponseHandler.send_file_response; us is
\* the %f part read by the build's first create_temp_file call, ok whether the
\* build returns a document, sok whether send_document returns
SelectFormat(u, fmt, us, ok, sok) ==
    /\ IF pending[u] = NoPending
       THEN /\ us = created
            /\ sok
            /\ ev' = [op |-> "select", user |-> u, result |-> "notFound",
                      removed |-> 0, fresh |-> TRUE, rendered |-> NoPending,
                      after |-> After(u)]
            /\ pending' = PendingAfterSelect(pending, u, "notFound")
            /\ UNCHANGED <<temp, created>>
       ELSE /\ created + Creates(fmt) <= MaxCreates
            /\ fmt = "html" => ok \in WriteOutcomes
            /\ us \in UsecReadings
            /\ ~ok => sok
            /\ LET r == CreateDocument(fmt, temp[u], now, us, ok)
                   res == SendFileResult(r.made, sok)
               IN  /\ temp' = [temp EXCEPT ![u] = r.dir]
                   /\ pending' = PendingAfterSelect(pending, u, res)
                   /\ ev' = [op |-> "select", user |-> u, result |-> res,
                             removed |-> Cardinality(temp[u].files \ r.dir.files),
                             fresh |-> FreshLocation(fmt, temp[u], now, us),
                             rendered |-> pending[u], after |-> After(u)]
            /\ created' = created + Creates(fmt)
    /\ UNCHANGED <<now, ticks, hist, nex, conv, faulty, sweepFaults, clockRepeats, botData, groupConv, warnings, nextSweep>>

\* the effect shared by clear_command and the clear_history button
ClearRequest(u, via) ==
    /\ pending' = ClearUserData(pending, u)
    /\ temp' = CleanupUserFiles(temp, u)
    /\ ev' = [op |-> "clear", user |-> u,
              removed |-> Cardinality(temp[u].files)]
    /\ conv' = ClearChatData(conv, u)
    /\ UNCHANGED <<now, ticks, created, hist, nex, faulty, sweepFaults, clockRepeats, botData, groupConv, warnings, nextSweep>>

\* GeminiTelegramBot.clear_command
ClearCommand(u) == ClearRequest(u, "command")

\* GeminiTelegramBot.button_callback, data == "clear_history"
ClearButton(u) == ClearRequest(u, "button")

\* GeminiTelegramBot.history_command
HistoryCommand(u) ==
    /\ ev' = [op |-> "history", user |-> u,
              count |-> Cardinality(HistoryListing(hist[u]))]
    /\ UNCHANGED <<now, ticks, created, temp, hist, nex, pending, conv, faulty, sweepFaults,
                   clockRepeats, botData, groupConv, warnings, nextSweep>>

\* no filesystem error in a run of cleanup_all_old_files
NoFail == [user |-> 0, area |-> "none"]

\* a filesystem error of a run: the first stat or unlink in the working area
\* or in the transcript area of one user raises (the area holds a file)
FailPoints ==
    {NoFail} \cup
    {[user |-> u, area |-> ar] : u \in Users, ar \in {"temp", "history"}}

CanFail(fail) ==
    \/ fail = NoFail
    \/ sweepFaults /\ fail.area = "temp" /\ temp[fail.user].files # {}
    \/ sweepFaults /\ fail.area = "history" /\ hist[fail.user] # {}

\* base_dir.iterdir(): the user directories in the order the system lists them
Orders == {<<1, 2>>, <<2, 1>>}

Pos(order, u) == CHOOSE i \in 1 .. Len(order) : order[i] = u

\* cleanup_all_old_files: whether the loop over the user directories comes
\* to the working area of u.  An error in a working area is caught by
\* cleanup_dir and the loop goes on; an error in a transcript area leaves the
\* loop for the except of cleanup_all_old_files
ReachesTemp(order, fail, u) ==
    fail.area = "history" => Pos(order, u) <= Pos(order, fail.user)

\* cleanup_all_old_files: whether the loop prunes the transcript area of u
ReachesHistory(order, fail, u) ==
    fail.area = "history" => Pos(order, u) < Pos(order, fail.user)

\* FileManager.cleanup_all_old_files
SweepAll(t, h, nowT, hours, order, fail) ==
    [temp |-> [u \in Users |->
                  IF ReachesTemp(order, fail, u)
                        /\ fail # [user |-> u, area |-> "temp"]
                  THEN SweepAllTemp(t, nowT, hours)[u]
                  ELSE t[u]],
     hist |-> [u \in Users |->
                  IF ReachesHistory(order, fail, u)
                  THEN PruneAllHistory(h, nowT)[u]
                  ELSE h[u]]]

\* FileManager.cleanup_all_old_files as run by a job
SweepJob(op, hours, order, fail) ==
    LET r == SweepAll(temp, hist, now, hours, order, fail)
    IN  /\ CanFail(fail)
        /\ fail = NoFail => order = <<1, 2>>
        /\ temp' = r.temp
        /\ hist' = r.hist
        /\ ev' = [op |-> op, user |-> 0, ran |-> TRUE, fail |-> fail,
                  removed |-> Cardinality(RemovedTemp(temp, r.temp)),
                  pruned |-> Cardinality(RemovedHist(hist, r.hist))]

\* GeminiTelegramBot.cleanup_temp_files, the repeating job
CleanupTempFiles(order, fail) ==
    /\ nextSweep # Unscheduled => now = nextSweep
    /\ SweepJob("periodic", TEMP_SWEEP_HOURS, order, fail)
    /\ nextSweep' = IF nextSweep = Unscheduled THEN Unscheduled
                    ELSE nextSweep + SWEEP_INTERVAL
    /\ UNCHANGED <<now, ticks, created, nex, pending, conv, faulty, sweepFaults, clockRepeats, botData, groupConv, warnings>>

\* daily_cleanup: context.application.chat_data.clear() and
\* context.application.user_data.clear()
ResetSessions(p, c) ==
    [pending |-> [u \in Users |-> NoPending], conv |-> [u \in Users |-> 0]]

\* GeminiTelegramBot.daily_cleanup.  application.chat_data and
\* application.user_data are what the telegram library hands out: plain
\* dictionaries, whose clear() returns (cleared), or, in the versions
\* requirements.txt asks for (python-telegram-bot >= 20.7), read-only mapping
\* views without a clear method, so that the first clear() raises and the
\* except of daily_cleanup logs it before cleanup_all_old_files is reached
DailyCleanup(cleared, order, fail) ==
    IF cleared
    THEN /\ pending' = ResetSessions(pending, conv).pending
         /\ conv' = ResetSessions(pending, conv).conv
         /\ groupConv' = <<>>
         /\ SweepJob("daily", DAILY_SWEEP_HOURS, order, fail)
         /\ UNCHANGED <<now, ticks, created, nex, faulty, sweepFaults, clockRepeats, botData,
                        warnings, nextSweep>>
    ELSE /\ fail = NoFail
         /\ order = <<1, 2>>
         /\ ev' = [op |-> "daily", user |-> 0, ran |-> FALSE, fail |-> fail,
                   removed |-> 0, pruned |-> 0]
         /\ UNCHANGED <<now, ticks, created, temp, hist, nex, pending, conv, faulty, sweepFaults,
                        clockRepeats, botData, groupConv, warnings, nextSweep>>

\* the clock advances; a due run of the repeating job is not skipped
Tick(d) ==
    /\ ticks < MaxTicks
    /\ d > 0
    /\ nextSweep # Unscheduled => now + d <= nextSweep
    /\ now' = now + d
    /\ ticks' = ticks + 1
    /\ ev' = [op |-> "tick", user |-> 0]
    /\ UNCHANGED <<created, temp, hist, nex, pending, conv, faulty, sweepFaults, clockRepeats, botData, groupConv, warnings,
                   nextSweep>>

Next ==
    \/ \E u \in Users, a \in Answers, wok \in BOOLEAN, dok \in BOOLEAN :
            HandleMessage(u, a, wok, dok)
    \/ \E u \in Users, fmt \in {"html", "pdf"}, us \in 0 .. MaxCreates, ok \in BOOLEAN, sok \in BOOLEAN :
            SelectFormat(u, fmt, us, ok, sok)
    \/ \E u \in Users : ClearCommand(u)
    \/ \E u \in Users : ClearButton(u)
    \/ \E u \in Users : HistoryCommand(u)
    \/ \E order \in Orders, fail \in FailPoints : CleanupTempFiles(order, fail)
    \/ \E cleared \in BOOLEAN, order \in Orders, fail \in FailPoints :
            DailyCleanup(cleared, order, fail)
    \/ \E d \in Steps \cup {nextSweep - now} : Tick(d)

Spec == Init /\ [][Next]_vars

\* the repeating job runs on its schedule: first after SWEEP_FIRST seconds,
\* then every SWEEP_INTERVAL seconds
InitSched ==
    /\ now = 0
    /\ ticks = 0
    /\ created = 0
    /\ temp = [u \in Users |-> NoDir]
    /\ hist = [u \in Users |-> {}]
    /\ nex = [u \in Users |-> 0]
    /\ pending = [u \in Users |-> NoPending]
    /\ conv = [u \in Users |-> 0]
    /\ faulty = FALSE
    /\ sweepFaults = FALSE
    /\ clockRepeats = FALSE
    /\ botData = NoBotData
    /\ groupConv = <<>>
    /\ warnings = [u \in Users |-> 0]
    /\ nextSweep = SWEEP_FIRST
    /\ ev = [op |-> "init", user |-> 0]

\* the job queue runs a due job
RunsCleanupTempFiles ==
    \E order \in Orders, fail \in FailPoints : CleanupTempFiles(order, fail)

SpecSched == InitSched /\ [][Next]_vars /\ WF_vars(RunsCleanupTempFiles)

\* filesystem writes may fail
InitFaulty ==
    /\ now = 0
    /\ ticks = 0
    /\ created = 0
    /\ temp = [u \in Users |-> NoDir]
    /\ hist = [u \in Users |-> {}]
    /\ nex = [u \in Users |-> 0]
    /\ pending = [u \in Users |-> NoPending]
    /\ conv = [u \in Users |-> 0]
    /\ faulty = TRUE
    /\ sweepFaults = FALSE
    /\ clockRepeats = FALSE
    /\ botData = NoBotData
    /\ groupConv = <<>>
    /\ warnings = [u \in Users |-> 0]
    /\ nextSweep = Unscheduled
    /\ ev = [op |-> "init", user |-> 0]

SpecFaulty == InitFaulty /\ [][Next]_vars

\* stat and unlink may fail during a sweep
InitSweepFaulty ==
    /\ now = 0
    /\ ticks = 0
    /\ created = 0
    /\ temp = [u \in Users |-> NoDir]
    /\ hist = [u \in Users |-> {}]
    /\ nex = [u \in Users |-> 0]
    /\ pending = [u \in Users |-> NoPending]
    /\ conv = [u \in Users |-> 0]
    /\ faulty = FALSE
    /\ sweepFaults = TRUE
    /\ clockRepeats = FALSE
    /\ botData = NoBotData
    /\ groupConv = <<>>
    /\ warnings = [u \in Users |-> 0]
    /\ nextSweep = Unscheduled
    /\ ev = [op |-> "init", user |-> 0]

SpecSweepFaulty == InitSweepFaulty /\ [][Next]_vars

\* the wall clock may repeat a reading
InitClock ==
    /\ now = 0
    /\ ticks = 0
    /\ created = 0
    /\ temp = [u \in Users |-> NoDir]
    /\ hist = [u \in Users |-> {}]
    /\ nex = [u \in Users |-> 0]
    /\ pending = [u \in Users |-> NoPending]
    /\ conv = [u \in Users |-> 0]
    /\ faulty = FALSE
    /\ sweepFaults = FALSE
    /\ clockRepeats = TRUE
    /\ botData = NoBotData
    /\ groupConv = <<>>
    /\ warnings = [u \in Users |-> 0]
    /\ nextSweep = Unscheduled
    /\ ev = [op |-> "init", user |-> 0]

SpecClock == InitClock /\ [][Next]_vars

\* ----------------------------------------------------------------- the model call

\* get_gemini_response: len("\n\n[Ответ обрезан из-за ограничения длины]")
TRUNCATION_NOTE_LEN == 41

\* get_gemini_response, except branch: the characters of the error text around
\* the quoted exception
ERROR_TEXT_FRAME == 73

\* get_gemini_response, except branch: str(e)[:200]
ERROR_DETAIL_MAX == 200

\* what generate_content and response.text come to: the call raises an
\* exception whose text has len characters, or returns a text whose body has
\* len characters (nl: holding a line break) between pad characters of
\* leading and trailing white space
LMOutcomes ==
    {[kind |-> "raises", len |-> 300, nl |-> FALSE, pad |-> 0],
     [kind |-> "text", len |-> 0, nl |-> FALSE, pad |-> 2],
     [kind |-> "text", len |-> 6500, nl |-> FALSE, pad |-> 1]}

\* a 6500-character answer of plain prose
LongProse == [kind |-> "text", len |-> 6500, nl |-> FALSE, pad |-> 1]

\* get_gemini_response appending the note within the limit
GetGeminiResponseNoteInside(o) ==
    IF o.kind = "raises"
    THEN [len |-> ERROR_TEXT_FRAME
                    + (IF o.len <= ERROR_DETAIL_MAX THEN o.len ELSE ERROR_DETAIL_MAX),
          nl |-> TRUE]
    ELSE IF o.len > MAX_TOTAL_CHARS
         THEN [len |-> MAX_TOTAL_CHARS, nl |-> TRUE]
         ELSE [len |-> o.len, nl |-> o.nl]

\* GeminiTelegramBot.get_gemini_response, the text returned: the error text
\* of the except branch, or response.text.strip(), cut to MAX_TOTAL_CHARS
\* characters with the note appended when it is longer
GetGeminiResponse(o) ==
    IF o.kind = "raises"
    THEN [len |-> ERROR_TEXT_FRAME
                    + (IF o.len <= ERROR_DETAIL_MAX THEN o.len ELSE ERROR_DETAIL_MAX),
          nl |-> TRUE]
    ELSE IF o.len > MAX_TOTAL_CHARS
         THEN [len |-> MAX_TOTAL_CHARS + TRUNCATION_NOTE_LEN, nl |-> TRUE]
         ELSE [len |-> o.len, nl |-> o.nl]

\* the texts get_gemini_response returns from its except branch
ErrorAnswers ==
    {[len |-> ERROR_TEXT_FRAME + n, nl |-> TRUE] : n \in 0 .. ERROR_DETAIL_MAX}

\* Bot.send_message with an empty text: the Bot API refuses it
Deliverable(a, dok) == a.len = 0 => ~dok

\* GeminiTelegramBot.handle_message when the model call raises:
\* get_gemini_response returns from its except branch, which leaves
\* context.chat_data["conversation"] as it was, and process_response
\* dispatches the error text
HandleMessageLMError(u, o, wok, dok) ==
    /\ o.kind = "raises"
    /\ TotalExchanges < MaxExchanges
    /\ wok \in WriteOutcomes
    /\ LET a == GetGeminiResponse(o)
           r == ProcessResponse(hist[u], a, now, nex[u] + 1, wok, dok)
       IN  /\ hist' = [hist EXCEPT ![u] = r.hist]
           /\ ev' = [op |-> "dispatch", user |-> u, ans |-> a, mode |-> r.mode,
                     context |-> PromptExchanges(conv, u),
                     writes |-> r.writes, wrote |-> wok, delivered |-> r.delivered]
    /\ pending' = StorePending(pending, u, nex[u] + 1)
    /\ nex' = [nex EXCEPT ![u] = @ + 1]
    /\ UNCHANGED <<now, ticks, created, temp, conv, faulty, sweepFaults, clockRepeats, botData, groupConv, warnings,
                   nextSweep>>

\* the handlers and jobs, the answers being what get_gemini_response makes of
\* the outcomes of the model call
NextLM ==
    \/ \E u \in Users, o \in LMOutcomes, wok \in BOOLEAN, dok \in BOOLEAN :
            /\ o.kind = "text"
            /\ Deliverable(GetGeminiResponse(o), dok)
            /\ HandleMessage(u, GetGeminiResponse(o), wok, dok)
    \/ \E u \in Users, o \in LMOutcomes, wok \in BOOLEAN, dok \in BOOLEAN :
            HandleMessageLMError(u, o, wok, dok)
    \/ \E u \in Users, fmt \in {"html", "pdf"}, us \in 0 .. MaxCreates, ok \in BOOLEAN, sok \in BOOLEAN :
            SelectFormat(u, fmt, us, ok, sok)
    \/ \E u \in Users : ClearCommand(u)
    \/ \E u \in Users : ClearButton(u)
    \/ \E u \in Users : HistoryCommand(u)
    \/ \E order \in Orders, fail \in FailPoints : CleanupTempFiles(order, fail)
    \/ \E cleared \in BOOLEAN, order \in Orders, fail \in FailPoints :
            DailyCleanup(cleared, order, fail)
    \/ \E d \in Steps \cup {nextSweep - now} : Tick(d)

SpecLM == Init /\ [][NextLM]_vars

\* ----------------------------------------------------------------- texts

\* the characters of a text: carriage return, line feed, tab, backtick,
\* apostrophe, space and letters
CR == "CR"

LF == "LF"

TAB == "TAB"

BT == "BT"

QT == "QT"

SP == " "

\* characters of the texts examined
Alphabet == {CR, LF, TAB, BT, SP, "a", "b"}

\* length of the texts examined
MaxTextLen == 4

\* a text is the sequence of its characters
Texts == UNION {[1 .. n -> Alphabet] : n \in 0 .. MaxTextLen}

\* max_width of _wrap_text
Widths == 1 .. 3

Chars(s) == {s[i] : i \in 1 .. Len(s)}

\* str.replace(old, new): the occurrences of old, found from the left and
\* not overlapping, are replaced
RECURSIVE Replace(_, _, _)
Replace(s, old, new) ==
    IF Len(s) < Len(old) THEN s
    ELSE IF SubSeq(s, 1, Len(old)) = old
         THEN new \o Replace(SubSeq(s, Len(old) + 1, Len(s)), old, new)
         ELSE <<Head(s)>> \o Replace(Tail(s), old, new)

\* clean_markdown with the code-fence rule written for the apostrophes that
\* the backtick rule leaves
CleanMarkdownFenceOfQuotes(t) ==
    LET t1 == Replace(t, <<CR, LF>>, <<LF>>)
        t2 == Replace(t1, <<CR>>, <<LF>>)
        t3 == Replace(t2, <<BT>>, <<QT>>)
        t4 == Replace(t3, <<QT, QT, QT>>, <<QT, QT, QT, LF>>)
    IN  Replace(t4, <<TAB>>, <<SP, SP, SP, SP>>)

\* MarkdownProcessor.clean_markdown: the line endings, then the entries of
\* replacements in the order of the dictionary
CleanMarkdown(t) ==
    LET t1 == Replace(t, <<CR, LF>>, <<LF>>)
        t2 == Replace(t1, <<CR>>, <<LF>>)
        t3 == Replace(t2, <<BT>>, <<QT>>)
        t4 == Replace(t3, <<BT, BT, BT>>, <<BT, BT, BT, LF>>)
    IN  Replace(t4, <<TAB>>, <<SP, SP, SP, SP>>)

\* process_response: len(response_text) and '\n' in response_text
Measure(t) == [len |-> Len(t), nl |-> LF \in Chars(t)]

\* process_response: the branch taken for the text
ModeOfText(t) == ModeOf(Measure(t))

\* str.split(sep) for a separator of one character
RECURSIVE Split(_, _)
Split(s, sep) ==
    IF sep \notin Chars(s) THEN <<s>>
    ELSE LET i == CHOOSE k \in 1 .. Len(s) :
                      s[k] = sep /\ \A j \in 1 .. k - 1 : s[j] # sep
         IN  <<SubSeq(s, 1, i - 1)>> \o Split(SubSeq(s, i + 1, Len(s)), sep)

\* ' '.join(words)
RECURSIVE Join(_)
Join(words) ==
    IF words = <<>> THEN <<>>
    ELSE IF Len(words) = 1 THEN words[1]
    ELSE words[1] \o <<SP>> \o Join(Tail(words))

\* _wrap_text cutting a long word into its full-width parts only
RECURSIVE ChunksFullOnly(_, _)
ChunksFullOnly(word, w) ==
    IF Len(word) < w THEN <<>>
    ELSE <<SubSeq(word, 1, w)>> \o ChunksFullOnly(SubSeq(word, w + 1, Len(word)), w)

\* _wrap_text: word[i:i + max_width] for i in range(0, word_length, max_width)
RECURSIVE Chunks(_, _)
Chunks(word, w) ==
    IF Len(word) <= w THEN <<word>>
    ELSE <<SubSeq(word, 1, w)>> \o Chunks(SubSeq(word, w + 1, Len(word)), w)

\* _wrap_text testing the characters of the words without the spaces
\* between them
OverflowsNoSpaces(curLen, wl, n, w) == curLen + wl > w

\* _wrap_text: current_length + word_length + len(current_line) > max_width
Overflows(curLen, wl, n, w) == curLen + wl + n > w

\* _wrap_text, the loop over the words of a paragraph: lines are the lines
\* appended so far, cur is current_line, curLen is current_length
RECURSIVE WrapWords(_, _, _, _, _)
WrapWords(words, w, lines, cur, curLen) ==
    IF words = <<>>
    THEN IF cur # <<>> THEN Append(lines, Join(cur)) ELSE lines
    ELSE LET word == Head(words)
             wl == Len(word)
         IN  IF wl > w
             THEN WrapWords(Tail(words), w,
                            (IF cur # <<>> THEN Append(lines, Join(cur)) ELSE lines)
                                \o Chunks(word, w),
                            IF cur # <<>> THEN <<>> ELSE cur,
                            IF cur # <<>> THEN 0 ELSE curLen)
             ELSE IF Overflows(curLen, wl, Len(cur), w)
                  THEN WrapWords(Tail(words), w, Append(lines, Join(cur)),
                                 <<word>>, wl)
                  ELSE WrapWords(Tail(words), w, lines, Append(cur, word),
                                 curLen + wl)

\* _wrap_text, the loop over the paragraphs
RECURSIVE WrapParagraphs(_, _, _)
WrapParagraphs(paragraphs, w, lines) ==
    IF paragraphs = <<>> THEN lines
    ELSE WrapParagraphs(Tail(paragraphs), w,
                        WrapWords(Split(Head(paragraphs), SP), w, lines, <<>>, 0))

\* PDFGenerator._wrap_text
WrapText(t, w) == WrapParagraphs(Split(t, LF), w, <<>>)

\* the text handed to a function of MarkdownProcessor, PDFGenerator or
\* ResponseHandler is any text
InitText ==
    /\ now = 0
    /\ ticks = 0
    /\ created = 0
    /\ temp = [u \in Users |-> NoDir]
    /\ hist = [u \in Users |-> {}]
    /\ nex = [u \in Users |-> 0]
    /\ pending = [u \in Users |-> NoPending]
    /\ conv = [u \in Users |-> 0]
    /\ faulty = FALSE
    /\ sweepFaults = FALSE
    /\ clockRepeats = FALSE
    /\ botData = NoBotData
    /\ groupConv = <<>>
    /\ warnings = [u \in Users |-> 0]
    /\ nextSweep = Unscheduled
    /\ ev \in {[op |-> "text", user |-> 0, text |-> t] : t \in Texts}

\* process_response branches on the text
ApplyProcessResponse ==
    /\ ev.op = "text"
    /\ ev' = [op |-> "process_response", user |-> 0, text |-> ev.text,
              mode |-> ModeOfText(ev.text)]
    /\ UNCHANGED <<now, ticks, created, temp, hist, nex, pending, conv, faulty,
                   sweepFaults, clockRepeats, botData, groupConv, warnings, nextSweep>>

\* clean_markdown is applied to the text, or to its own result
ApplyCleanMarkdown ==
    /\ ev.op \in {"text", "clean_markdown"}
    /\ ev' = [op |-> "clean_markdown", user |-> 0,
              text |-> IF ev.op = "text" THEN ev.text ELSE ev.out,
              out |-> CleanMarkdown(IF ev.op = "text" THEN ev.text ELSE ev.out),
              again |-> ev.op = "clean_markdown"]
    /\ UNCHANGED <<now, ticks, created, temp, hist, nex, pending, conv, faulty,
                   sweepFaults, clockRepeats, botData, groupConv, warnings, nextSweep>>

\* _wrap_text is applied to the text
ApplyWrapText(w) ==
    /\ ev.op = "text"
    /\ ev' = [op |-> "_wrap_text", user |-> 0, text |-> ev.text, width |-> w,
              lines |-> WrapText(ev.text, w)]
    /\ UNCHANGED <<now, ticks, created, temp, hist, nex, pending, conv, faulty,
                   sweepFaults, clockRepeats, botData, groupConv, warnings, nextSweep>>

NextText ==
    \/ ApplyProcessResponse
    \/ ApplyCleanMarkdown
    \/ \E w \in Widths : ApplyWrapText(w)

SpecText == InitText /\ [][NextText]_vars

\* ----------------------------------------------------------------- the event loop

\* the answers that are offered as documents
OfferedAnswers == {a \in Answers : ModeOf(a) = "OFFERED"}

\* the thread of the event loop is not inside a document builder
LoopFree == ev.op # "building"

\* send_file_response has found the stored answer, has awaited its progress
\* message and calls create_html_from_markdown or create_pdf_from_markdown:
\* a plain function call in the coroutine, which returns when the document
\* is written
BeginBuild(u, fmt) ==
    /\ LoopFree
    /\ pending[u] # NoPending
    /\ created + Creates(fmt) <= MaxCreates
    /\ ev' = [op |-> "building", user |-> u, fmt |-> fmt]
    /\ UNCHANGED <<now, ticks, created, temp, hist, nex, pending, conv, faulty,
                   sweepFaults, clockRepeats, botData, groupConv, warnings, nextSweep>>

\* the builder returns and send_file_response goes on to send the document
EndBuild(u, fmt, us, ok, sok) ==
    /\ ev.op = "building"
    /\ ev.user = u
    /\ ev.fmt = fmt
    /\ SelectFormat(u, fmt, us, ok, sok)

\* a selection that finds no stored answer
SelectNothing(u, fmt) ==
    /\ LoopFree
    /\ pending[u] = NoPending
    /\ SelectFormat(u, fmt, created, TRUE, TRUE)

\* what the event loop runs for the other users and for the job queue
UnrelatedWork(u) ==
    /\ LoopFree
    /\ \/ \E v \in Users \ {u}, a \in OfferedAnswers, wok \in BOOLEAN, dok \in BOOLEAN :
              HandleMessage(v, a, wok, dok)
       \/ \E v \in Users \ {u} : ClearCommand(v)
       \/ \E v \in Users \ {u} : HistoryCommand(v)
       \/ \E order \in Orders, fail \in FailPoints : CleanupTempFiles(order, fail)
       \/ \E cleared \in BOOLEAN, order \in Orders, fail \in FailPoints :
              DailyCleanup(cleared, order, fail)

\* the handlers and jobs as the one thread of the event loop runs them, the
\* call of a document builder being a step of its own
NextBuild ==
    \/ \E u \in Users, a \in OfferedAnswers, wok \in BOOLEAN, dok \in BOOLEAN :
            LoopFree /\ HandleMessage(u, a, wok, dok)
    \/ \E u \in Users, fmt \in {"html", "pdf"} : BeginBuild(u, fmt)
    \/ \E u \in Users, fmt \in {"html", "pdf"}, us \in 0 .. MaxCreates, ok \in BOOLEAN, sok \in BOOLEAN :
            EndBuild(u, fmt, us, ok, sok)
    \/ \E u \in Users, fmt \in {"html", "pdf"} : SelectNothing(u, fmt)
    \/ \E u \in Users : LoopFree /\ ClearCommand(u)
    \/ \E u \in Users : LoopFree /\ ClearButton(u)
    \/ \E u \in Users : LoopFree /\ HistoryCommand(u)
    \/ \E order \in Orders, fail \in FailPoints :
            LoopFree /\ CleanupTempFiles(order, fail)
    \/ \E cleared \in BOOLEAN, order \in Orders, fail \in FailPoints :
            LoopFree /\ DailyCleanup(cleared, order, fail)
    \/ \E d \in Steps \cup {nextSweep - now} : Tick(d)

SpecBuild == Init /\ [][NextBuild]_vars

\* ----------------------------------------------------------------- a scan and a vanishing file

\* the clock reading of a scan, in seconds
SCAN_NOW == 20000

\* the files a working area may hold when it is scanned: written at 0, 5000
\* or 15000 seconds, so older or younger than the max-age of the periodic
\* sweep when the scan runs
ScanFiles ==
    {TempFile("pdf_", "pdf", m, us) : m \in {0, 5000, 15000}, us \in {0, 1}}

\* FileManager.cleanup_dir while something else removes the file gone from
\* the directory: scanned are the files glob has yielded before it.  Either
\* is_file() already finds gone missing, and the scan goes on, or gone
\* vanishes after is_file(): stat() or unlink() raises, the except around
\* the loop logs it and the scan is over (raises)
CleanupDirRace(files, t, maxAge, scanned, gone, raises) ==
    IF raises
    THEN (files \ {gone}) \ {f \in scanned : Age(f, t) > maxAge}
    ELSE CleanupDir(files \ {gone}, t, maxAge)

\* a working area with files of several ages, at the time of a sweep
InitScan ==
    /\ now = SCAN_NOW
    /\ ticks = 0
    /\ created = 0
    /\ \E fs \in SUBSET ScanFiles :
            temp = [u \in Users |-> IF u = 1 THEN [exists |-> TRUE, files |-> fs]
                                    ELSE NoDir]
    /\ hist = [u \in Users |-> {}]
    /\ nex = [u \in Users |-> 0]
    /\ pending = [u \in Users |-> NoPending]
    /\ conv = [u \in Users |-> 0]
    /\ faulty = FALSE
    /\ sweepFaults = FALSE
    /\ clockRepeats = FALSE
    /\ botData = NoBotData
    /\ groupConv = <<>>
    /\ warnings = [u \in Users |-> 0]
    /\ nextSweep = Unscheduled
    /\ ev = [op |-> "init", user |-> 0]

\* cleanup_temp_files -> cleanup_all_old_files -> cleanup_dir for the working
\* area of u, one file of which vanishes during the scan
ScanWithVanishingFile(u, scanned, gone, raises) ==
    /\ ev.op = "init"
    /\ temp[u].exists
    /\ gone \in temp[u].files
    /\ scanned \subseteq temp[u].files \ {gone}
    /\ ~raises => scanned = {}
    /\ temp' = [temp EXCEPT ![u].files =
                    CleanupDirRace(@, now, TEMP_SWEEP_HOURS * 3600, scanned, gone,
                                   raises)]
    /\ ev' = [op |-> "scan", user |-> u, gone |-> gone, raised |-> raises,
              maxAge |-> TEMP_SWEEP_HOURS * 3600]
    /\ UNCHANGED <<now, ticks, created, hist, nex, pending, conv, faulty,
                   sweepFaults, clockRepeats, botData, groupConv, warnings, nextSweep>>

\* the same scan with no file vanishing
ScanUndisturbed(u) ==
    /\ ev.op = "init"
    /\ temp[u].exists
    /\ temp' = SweepAllTemp(temp, now, TEMP_SWEEP_HOURS)
    /\ ev' = [op |-> "scan", user |-> u, gone |-> NoDir, raised |-> FALSE,
              maxAge |-> TEMP_SWEEP_HOURS * 3600]
    /\ UNCHANGED <<now, ticks, created, hist, nex, pending, conv, faulty,
                   sweepFaults, clockRepeats, botData, groupConv, warnings, nextSweep>>

NextScan ==
    \/ \E u \in Users, scanned \in SUBSET ScanFiles, gone \in ScanFiles, raises \in BOOLEAN :
            ScanWithVanishingFile(u, scanned, gone, raises)
    \/ \E u \in Users : ScanUndisturbed(u)

SpecScan == InitScan /\ [][NextScan]_vars

\* ----------------------------------------------------------------- windows and lines

\* _send_text_chunks: text[i:i+1000] for i in range(0, len(text), 1000)
CHUNK_SIZE == 1000

\* _send_text_chunks: parts[:5]
MAX_CHUNKS == 5

\* create_pdf_from_markdown: max_lines = 200
MAX_PDF_LINES == 200

\* create_pdf_from_markdown: query[:300]
QUERY_EXCERPT == 300

\* the lengths of the texts handed to _send_text_chunks: around no, one, two
\* and five windows and around the longest answer
ChunkLens ==
    (0 .. 12) \cup (995 .. 1005) \cup (1995 .. 2005) \cup (4995 .. 5005)
        \cup (6035 .. 6041)

\* the numbers of lines _wrap_text returns for the plain text of an answer
LineCounts == (0 .. 3) \cup (195 .. 205)

\* the lengths of the question stored with the answer (0: none)
QueryLens == {0, 1, 299, 300, 301, 500}

Smaller(a, b) == IF a <= b THEN a ELSE b

\* _send_text_chunks: parts, each the slice [from, to) of the text
Parts(len) ==
    [k \in 1 .. (len + CHUNK_SIZE - 1) \div CHUNK_SIZE |->
        [from |-> (k - 1) * CHUNK_SIZE, to |-> Smaller(k * CHUNK_SIZE, len)]]

\* _send_text_chunks: parts[:5]
FirstParts(parts) == SubSeq(parts, 1, Smaller(Len(parts), MAX_CHUNKS))

\* _send_text_chunks sleeping after every part
PausesAfterEach(i, n) == TRUE

\* _send_text_chunks: if i < len(parts[:5]) - 1, for the i-th part of n
\* (i counted from 1)
Pauses(i, n) == i < n

\* _send_text_chunks: what the loop does, in order: a message for each part
\* (the part escaped by _prepare_text) and the sleeps
RECURSIVE Emit(_, _)
Emit(parts, i) ==
    IF i > Len(parts) THEN <<>>
    ELSE <<[kind |-> "message", from |-> parts[i].from, to |-> parts[i].to]>>
            \o (IF Pauses(i, Len(parts)) THEN <<[kind |-> "sleep", from |-> 0, to |-> 0]>>
                ELSE <<>>)
            \o Emit(parts, i + 1)

\* ResponseHandler._send_text_chunks for a text of len characters
SendTextChunks(len) == Emit(FirstParts(Parts(len)), 1)

\* create_pdf_from_markdown writing the note at max_lines lines already
TruncatedAtLimit(n) == n >= MAX_PDF_LINES

\* create_pdf_from_markdown: if len(lines) > max_lines
Truncated(n) == n > MAX_PDF_LINES

\* create_pdf_from_markdown, the answer section for n wrapped lines: the
\* lines written, by their place in the wrapped text, and whether the
\* "[Document truncated ...]" note follows them
AnswerSection(n) ==
    [rendered |-> [i \in 1 .. Smaller(n, MAX_PDF_LINES) |-> i],
     marker |-> Truncated(n)]

\* create_pdf_from_markdown: the characters of the question that are wrapped
\* and written (none when there is no question)
QuestionExcerpt(q) == Smaller(q, QUERY_EXCERPT)

\* a text to be sent in parts, or an answer and its question to be rendered
InitRender ==
    /\ now = 0
    /\ ticks = 0
    /\ created = 0
    /\ temp = [u \in Users |-> NoDir]
    /\ hist = [u \in Users |-> {}]
    /\ nex = [u \in Users |-> 0]
    /\ pending = [u \in Users |-> NoPending]
    /\ conv = [u \in Users |-> 0]
    /\ faulty = FALSE
    /\ sweepFaults = FALSE
    /\ clockRepeats = FALSE
    /\ botData = NoBotData
    /\ groupConv = <<>>
    /\ warnings = [u \in Users |-> 0]
    /\ nextSweep = Unscheduled
    /\ ev \in {[op |-> "text", user |-> 0, len |-> l] : l \in ChunkLens}
            \cup {[op |-> "wrapped", user |-> 0, lines |-> n, query |-> q] :
                      n \in LineCounts, q \in QueryLens}

\* _send_text_chunks is applied to the text
ApplySendTextChunks ==
    /\ ev.op = "text"
    /\ ev' = [op |-> "_send_text_chunks", user |-> 0, len |-> ev.len,
              emitted |-> SendTextChunks(ev.len)]
    /\ UNCHANGED <<now, ticks, created, temp, hist, nex, pending, conv, faulty,
                   sweepFaults, clockRepeats, botData, groupConv, warnings, nextSweep>>

\* create_pdf_from_markdown writes the question and the answer section
ApplyRenderPdf ==
    /\ ev.op = "wrapped"
    /\ ev' = [op |-> "create_pdf", user |-> 0, lines |-> ev.lines,
              query |-> ev.query, section |-> AnswerSection(ev.lines),
              excerpt |-> QuestionExcerpt(ev.query)]
    /\ UNCHANGED <<now, ticks, created, temp, hist, nex, pending, conv, faulty,
                   sweepFaults, clockRepeats, botData, groupConv, warnings, nextSweep>>

NextRender ==
    \/ ApplySendTextChunks
    \/ ApplyRenderPdf

SpecRender == InitRender /\ [][NextRender]_vars

\* ----------------------------------------------------------------- plain text

\* characters of the texts handed to markdown_to_plain_text: of the ten
\* patterns only the two backtick patterns can match a text of backticks,
\* line feeds and letters
PlainAlphabet == {BT, LF, "a"}

\* length of those texts
MaxPlainLen == 8

PlainTexts == UNION {[1 .. n -> PlainAlphabet] : n \in 0 .. MaxPlainLen}

\* the first place of character c in s (c occurs in s)
FirstOf(s, c) == CHOOSE k \in 1 .. Len(s) : s[k] = c /\ \A j \in 1 .. k - 1 : s[j] # c

\* the places at which a run of three backticks begins
FenceStarts(s) ==
    {k \in 1 .. Len(s) - 2 : s[k] = BT /\ s[k + 1] = BT /\ s[k + 2] = BT}

\* re.sub of the inline-code pattern, with re.DOTALL: from the left, a
\* backtick and the next backtick are removed and what is between them, line
\* feeds included, is kept
RECURSIVE InlineCodeRule(_)
InlineCodeRule(s) ==
    IF BT \notin Chars(s) THEN s
    ELSE LET i == FirstOf(s, BT)
             rest == SubSeq(s, i + 1, Len(s))
         IN  IF BT \notin Chars(rest) THEN s
             ELSE LET j == FirstOf(rest, BT)
                  IN  SubSeq(s, 1, i - 1) \o SubSeq(rest, 1, j - 1)
                          \o InlineCodeRule(SubSeq(rest, j + 1, Len(rest)))

\* re.sub of the code-block pattern, with re.DOTALL: from the left, three
\* backticks, what follows up to the first line feed, the body and the next
\* three backticks are replaced by the body
RECURSIVE CodeFenceRule(_)
CodeFenceRule(s) ==
    LET matches ==
            {p \in FenceStarts(s) :
                \E q \in p + 3 .. Len(s) :
                    s[q] = LF /\ \E r \in FenceStarts(s) : r > q}
    IN  IF matches = {} THEN s
        ELSE LET p == CHOOSE x \in matches : \A y \in matches : x <= y
                 q == CHOOSE x \in p + 3 .. Len(s) :
                          s[x] = LF /\ \A y \in p + 3 .. x - 1 : s[y] # LF
                 r == CHOOSE x \in FenceStarts(s) :
                          x > q /\ \A y \in FenceStarts(s) : y > q => x <= y
             IN  SubSeq(s, 1, p - 1) \o SubSeq(s, q + 1, r - 1)
                     \o CodeFenceRule(SubSeq(s, r + 3, Len(s)))

\* MarkdownProcessor.markdown_to_plain_text: the patterns are applied in the
\* order of the list, the inline-code pattern before the code-block pattern
MarkdownToPlainText(t) == CodeFenceRule(InlineCodeRule(t))

InitPlain ==
    /\ now = 0
    /\ ticks = 0
    /\ created = 0
    /\ temp = [u \in Users |-> NoDir]
    /\ hist = [u \in Users |-> {}]
    /\ nex = [u \in Users |-> 0]
    /\ pending = [u \in Users |-> NoPending]
    /\ conv = [u \in Users |-> 0]
    /\ faulty = FALSE
    /\ sweepFaults = FALSE
    /\ clockRepeats = FALSE
    /\ botData = NoBotData
    /\ groupConv = <<>>
    /\ warnings = [u \in Users |-> 0]
    /\ nextSweep = Unscheduled
    /\ ev \in {[op |-> "text", user |-> 0, text |-> t] : t \in PlainTexts}

\* markdown_to_plain_text is applied to the text
ApplyMarkdownToPlainText ==
    /\ ev.op = "text"
    /\ ev' = [op |-> "markdown_to_plain_text", user |-> 0, text |-> ev.text,
              out |-> MarkdownToPlainText(ev.text)]
    /\ UNCHANGED <<now, ticks, created, temp, hist, nex, pending, conv, faulty,
                   sweepFaults, clockRepeats, botData, groupConv, warnings, nextSweep>>

NextPlain == ApplyMarkdownToPlainText

SpecPlain == InitPlain /\ [][NextPlain]_vars

\* ----------------------------------------------------------------- the group chat

\* get_gemini_response: history[-10:]
CONTEXT_ENTRIES == 10

\* exchanges dispatched in a behaviour of the group chat, over all users
MaxGroupExchanges == 6

\* registration warnings sent to one user in a behaviour
MaxWarnings == 2

\* what the model call comes to for a message in the group chat: it raises,
\* or returns a short answer of one line
GroupOutcomes ==
    {[kind |-> "raises", len |-> 300, nl |-> FALSE, pad |-> 0],
     [kind |-> "text", len |-> 500, nl |-> FALSE, pad |-> 0]}

\* an entry of context.chat_data["conversation"]: {"role": ..., "content": ...},
\* the content named by the user whose message it came from
Entry(role, u) == [role |-> role, user |-> u]

\* history[-n:]
LastEntries(h, n) == IF Len(h) <= n THEN h ELSE SubSeq(h, Len(h) - n + 1, Len(h))

\* get_gemini_response appending the question before the model call, so that
\* a call that raises leaves the question in the context
ConversationAfterKeepsQuestion(h, u, o) ==
    IF o.kind = "raises"
    THEN LastEntries(h \o <<Entry("user", u)>>, CONTEXT_ENTRIES)
    ELSE LastEntries(h \o <<Entry("user", u), Entry("assistant", u)>>, CONTEXT_ENTRIES)

\* get_gemini_response, what it makes of the conversation of the chat: after
\* the model call has returned, the question and the answer are appended and
\* the last 10 entries stored; the except branch stores nothing
ConversationAfter(h, u, o) ==
    IF o.kind = "raises"
    THEN h
    ELSE LastEntries(h \o <<Entry("user", u), Entry("assistant", u)>>, CONTEXT_ENTRIES)

\* handle_message answering an unregistered user without noting the warning
WarnedAfterForgets(w, u) == w

\* handle_message: warned[user_id] = 1
WarnedAfter(w, u) == w \cup {u}

\* clear_command / clear_history in the group chat: context.chat_data.clear()
\* empties the conversation all users of the chat share
ClearGroupChatData(h) == <<>>

\* GeminiTelegramBot.start_command: in a chat that is not private a reply
\* and nothing else; in the private chat the user is registered, the count
\* of warnings dropped and the user's directory made
StartCommand(u, private) ==
    /\ botData' = IF private
                  THEN [registered |-> botData.registered \cup {u},
                        warned |-> botData.warned \ {u}]
                  ELSE botData
    /\ ev' = [op |-> "start", user |-> u, private |-> private]
    /\ UNCHANGED <<now, ticks, created, temp, hist, nex, pending, conv, faulty,
                   sweepFaults, clockRepeats, nextSweep, groupConv, warnings>>

\* handle_message in the group chat, the message not addressed to the bot
\* (addressed = FALSE), or addressed to it by a registered user with nothing
\* but the bot's name in it: the handler returns, in the second case after
\* the reply that nothing was asked
GroupMessageWithoutQuestion(u, addressed) ==
    /\ addressed => u \in botData.registered
    /\ ev' = [op |-> "group_message", user |-> u, addressed |-> addressed,
              branch |-> IF addressed THEN "nothing asked" ELSE "not addressed"]
    /\ UNCHANGED <<now, ticks, created, temp, hist, nex, pending, conv, faulty,
                   sweepFaults, clockRepeats, nextSweep, botData, groupConv, warnings>>

\* handle_message in the group chat, the message addressed to the bot by a
\* user who is not registered: when the user has no count in "warned_users"
\* the warning is sent (rok: reply_text returns, otherwise it raises out of
\* the handler) and then noted; the handler returns
GroupMessageUnregistered(u, rok) ==
    /\ u \notin botData.registered
    /\ warnings[u] < MaxWarnings
    /\ LET warns == u \notin botData.warned
       IN  /\ warnings' = IF warns /\ rok THEN [warnings EXCEPT ![u] = @ + 1]
                          ELSE warnings
           /\ botData' = IF warns /\ rok
                         THEN [botData EXCEPT !.warned = WarnedAfter(@, u)]
                         ELSE botData
           /\ ev' = [op |-> "group_message", user |-> u, addressed |-> TRUE,
                     branch |-> "unregistered", warned |-> warns /\ rok]
    /\ UNCHANGED <<now, ticks, created, temp, hist, nex, pending, conv, faulty,
                   sweepFaults, clockRepeats, nextSweep, groupConv>>

\* handle_message in the group chat, a question addressed to the bot by a
\* registered user: get_gemini_response works on the chat_data of the group
\* chat, process_response on the user_data and the transcript area of the user
GroupMessage(u, o, wok, dok) ==
    /\ u \in botData.registered
    /\ TotalExchanges < MaxGroupExchanges
    /\ wok \in WriteOutcomes
    /\ LET a == GetGeminiResponse(o)
           r == ProcessResponse(hist[u], a, now, nex[u] + 1, wok, dok)
       IN  /\ hist' = [hist EXCEPT ![u] = r.hist]
           /\ ev' = [op |-> "group_message", user |-> u, addressed |-> TRUE,
                     branch |-> "question", failed |-> o.kind = "raises",
                     ans |-> a, before |-> groupConv, writes |-> r.writes,
                     wrote |-> wok, delivered |-> r.delivered]
    /\ groupConv' = ConversationAfter(groupConv, u, o)
    /\ pending' = StorePending(pending, u, nex[u] + 1)
    /\ nex' = [nex EXCEPT ![u] = @ + 1]
    /\ UNCHANGED <<now, ticks, created, temp, conv, faulty, sweepFaults,
                   clockRepeats, nextSweep, botData, warnings>>

\* clear_command or the clear_history button in the group chat:
\* context.chat_data is the chat_data of the group chat, context.user_data
\* the user_data of the user
ClearInGroup(u) ==
    /\ groupConv' = ClearGroupChatData(groupConv)
    /\ pending' = ClearUserData(pending, u)
    /\ temp' = CleanupUserFiles(temp, u)
    /\ ev' = [op |-> "clear", user |-> u, chat |-> "group", before |-> groupConv,
              removed |-> Cardinality(temp[u].files)]
    /\ UNCHANGED <<now, ticks, created, hist, nex, conv, faulty, sweepFaults,
                   clockRepeats, nextSweep, botData, warnings>>

\* a short answer of one line, to a message in a private chat
ShortAnswer == [len |-> 500, nl |-> FALSE]

\* the handlers in the group chat and the private chats, and the daily job
NextGroup ==
    \/ \E u \in Users, private \in BOOLEAN : StartCommand(u, private)
    \/ \E u \in Users, addressed \in BOOLEAN : GroupMessageWithoutQuestion(u, addressed)
    \/ \E u \in Users, rok \in BOOLEAN : GroupMessageUnregistered(u, rok)
    \/ \E u \in Users, o \in GroupOutcomes, dok \in BOOLEAN : GroupMessage(u, o, TRUE, dok)
    \/ \E u \in Users : ClearInGroup(u)
    \/ \E u \in Users : HandleMessage(u, ShortAnswer, TRUE, TRUE)
    \/ \E cleared \in BOOLEAN : DailyCleanup(cleared, <<1, 2>>, NoFail)

SpecGroup == Init /\ [][NextGroup]_vars

\* ----------------------------------------------------------------- claims

Modes == {"INLINE", "CHUNKED", "OFFERED"}

\* the record of the exchange the last dispatch was for
ExchangeRecorded ==
    \E r \in hist[ev.user] : r.ex = nex[ev.user] /\ r.mtime = now

\* C1: process_response chooses exactly one delivery mode, a function of the
\* answer's length and of whether it holds a line break only: CHUNKED when
\* length <= 500 with a line break, INLINE when length <= 500 without one or
\* 500 < length <= 1000, OFFERED when length > 1000; nothing else (user,
\* session state, earlier answers) changes the mode.
C1_ModeTable(a) ==
    CASE a.len <= 500 /\ a.nl -> "CHUNKED"
      [] a.len <= 500 /\ ~a.nl -> "INLINE"
      [] a.len > 500 /\ a.len <= 1000 -> "INLINE"
      [] a.len > 1000 -> "OFFERED"

C3_TranscriptBeforeDelivery ==
    ev.op = "dispatch" =>
        /\ ev.writes = 1
        /\ ev.wrote => ExchangeRecorded

\* the delivery of an OFFERED answer failed and the record of the exchange exists
C3_Witness ==
    /\ ev.op = "dispatch"
    /\ ev.mode = "OFFERED"
    /\ ~ev.delivered
    /\ ExchangeRecorded

\* C4 (as stated): after N dispatched exchanges of a user, with no pruning in
\* between (no record can be older than the transcript max-age yet), the
\* user's transcript area holds N records.
C4_OneRecordPerExchange ==
    now <= HISTORY_MAX_AGE =>
        \A u \in Users : Cardinality(hist[u]) = nex[u]

\* C5: no sweep (on artifact creation, periodic, daily) deletes a working-area
\* file whose age is strictly less than the max-age the sweep was given, and
\* the source a paginated build writes between its two on-access sweeps
\* survives the second one.
C5_SweepStep ==
    /\ \A u \in Users :
          (ev'.op = "select" /\ ev'.user = u) =>
              \A f \in temp[u].files \ temp'[u].files : ~(Age(f, now) < 3600)
    /\ \A u \in Users, us \in 0 .. MaxCreates :
          (SelectFormat(u, "pdf", us, FALSE, TRUE) /\ pending[u] # NoPending) =>
              TempFile("md_source_", "md", now, us) \in temp'[u].files
    /\ ev'.op = "periodic" =>
          \A u \in Users : \A f \in temp[u].files \ temp'[u].files :
              ~(Age(f, now) < 3 * 3600)
    /\ ev'.op = "daily" =>
          \A u \in Users : \A f \in temp[u].files \ temp'[u].files :
              ~(Age(f, now) < 24 * 3600)

C5_SweepKeepsYoungFiles == [][C5_SweepStep]_vars

\* the periodic sweep has deleted an expired file and kept a younger one
C5_Witness ==
    /\ ev.op = "periodic"
    /\ ev.removed > 0
    /\ \E u \in Users : \E f \in temp[u].files : Age(f, now) > 0

\* C6: while the periodic trigger runs on its schedule, a working-area file
\* whose age exceeds the max-age of that trigger (3 hours) is deleted within
\* one sweep interval of its expiry: the next run is never overdue and never
\* more than one interval away, no expired file is left by a run, and no file
\* is ever older than max-age plus one interval.
C6_Bounded ==
    /\ now <= nextSweep
    /\ nextSweep <= now + 10800
    /\ ev.op = "periodic" =>
          \A u \in Users : \A f \in temp[u].files : ~(Age(f, now) > 3 * 3600)
    /\ \A u \in Users : \A f \in temp[u].files : Age(f, now) <= 3 * 3600 + 10800

\* a run of the periodic trigger is due and an expired file is in place
C6_Overdue ==
    /\ now = nextSweep
    /\ \E u \in Users : \E f \in temp[u].files : Age(f, now) > 3 * 3600

\* the periodic trigger has run and no expired file is left
C6_Swept ==
    /\ ev.op = "periodic"
    /\ \A u \in Users : \A f \in temp[u].files : ~(Age(f, now) > 3 * 3600)

SweepsAreaOf(u) ==
    \/ \E order \in Orders, fail \in FailPoints : CleanupTempFiles(order, fail)
    \/ \E cleared \in BOOLEAN, order \in Orders, fail \in FailPoints :
            DailyCleanup(cleared, order, fail)
    \/ \E fmt \in {"html", "pdf"}, us \in 0 .. MaxCreates, ok \in BOOLEAN, sok \in BOOLEAN :
          SelectFormat(u, fmt, us, ok, sok) /\ pending[u] # NoPending

\* C7 (as stated): an artifact created at T0 survives a sweep at T0+30min and
\* is gone after a sweep at T0+90min, whichever sweep it is (on access or
\* scheduled).
C7_Step ==
    \A u \in Users : \A f \in temp[u].files :
        SweepsAreaOf(u) =>
            /\ Age(f, now) = 1800 => f \in temp'[u].files
            /\ Age(f, now) = 5400 => f \notin temp'[u].files

C7_OneHourLifetime == [][C7_Step]_vars

\* the directories of a user, as paths below the base directory
UserBaseDirPath(u) == <<"geminiduck", "user_", u>>

TempDirPath(u) == Append(UserBaseDirPath(u), "temp")

HistoryDirPath(u) == Append(UserBaseDirPath(u), "history")

IsPrefix(p, q) == Len(p) <= Len(q) /\ SubSeq(q, 1, Len(p)) = p

\* the steps issued for user u
UserScoped(u) ==
    /\ ev'.op \in {"dispatch", "select", "clear", "history"}
    /\ ev'.user = u

\* C8: the working-area and transcript-area paths of two distinct users are
\* disjoint, and an operation issued for one user (dispatch with its
\* transcript write, format selection with its on-access sweep, clear,
\* history listing) leaves the files of every other user as they are and
\* reports only the user's own files.
C8_Step ==
    \A u \in Users :
        UserScoped(u) =>
            /\ \A v \in Users \ {u} : temp'[v] = temp[v] /\ hist'[v] = hist[v]
            /\ ev'.op = "history" => ev'.count = Cardinality(hist[u])
            /\ \A v \in Users \ {u} :
                  \A p \in {TempDirPath(u), HistoryDirPath(u)} :
                      \A q \in {TempDirPath(v), HistoryDirPath(v)} :
                          ~IsPrefix(p, q) /\ ~IsPrefix(q, p)

C8_UserIsolation == [][C8_Step]_vars

\* a user has an artifact built while another user's artifact is in place
C8_Witness ==
    /\ ev.op = "select"
    /\ ev.result = "made"
    /\ \E v \in Users \ {ev.user} : temp[v].files # {} /\ hist[v] # {}

\* C9: a clear request (command or button) deletes every file of the
\* requesting user's working area and leaves it existing and empty; the
\* user's transcript files and every other user's areas are unchanged.
C9_Step ==
    \A u \in Users :
        (ClearCommand(u) \/ ClearButton(u)) =>
            /\ temp'[u].exists /\ temp'[u].files = {}
            /\ hist' = hist
            /\ \A v \in Users \ {u} : temp'[v] = temp[v]

C10_Step ==
    \A u \in Users :
        (ev.op = "clear" /\ ev.user = u /\ HistoryCommand(u)) => ev'.count = 0

C10_HistoryEmptyAfterClear == [][C10_Step]_vars

\* C11 (as stated): any two create_temp_file calls return distinct locations,
\* also for the same user and kind within the same clock tick: the location a
\* build is given names no file already in the working area, so no artifact
\* is overwritten by a later build.
C11_DistinctLocations ==
    ev.op = "select" => ev.fresh

\* C12: a session holds at most one pending response, always that of the
\* user's most recently dispatched exchange: each new answer replaces the one
\* before, and a format selection renders the latest answer of the selecting
\* user, never an earlier one and never one stored for another user.
C12_PendingIsLatest ==
    /\ \A u \in Users : pending[u] \in {NoPending, nex[u]}
    /\ (ev.op = "select" /\ ev.result # "notFound") =>
          /\ ev.rendered # NoPending
          /\ ev.rendered = nex[ev.user]
          /\ ev.rendered = pending[ev.user]

\* a user's second answer has replaced the first and is the one rendered
C12_Witness ==
    /\ ev.op = "select"
    /\ ev.result = "made"
    /\ ev.rendered = 2
    /\ nex[ev.user] = 2

\* the step dispatches an answer for user u (every step records in ev what
\* it was)
Dispatches(u) == ev'.op = "dispatch" /\ ev'.user = u

\* the step is a format selection of user u
Selects(u) == ev'.op = "select" /\ ev'.user = u

\* the step is a clear request of user u
Clears(u) == ev'.op = "clear" /\ ev'.user = u

\* C13: after an explicit clear (command or button) and before the next
\* answer of that user, a format selection finds no pending response: the
\* clear empties it, only a new answer of the user fills it again, and a
\* selection that finds none reports answer-not-found, builds no document and
\* creates no file in the working area.
C13_Step ==
    \A u \in Users :
        /\ Clears(u) => pending'[u] = NoPending
        /\ (pending[u] = NoPending /\ ~Dispatches(u)) => pending'[u] = NoPending
        /\ (pending[u] = NoPending /\ Selects(u)) =>
              /\ ev'.result = "notFound"
              /\ ReplyOf(ev'.result) = "notFoundMessage"
              /\ temp' = temp
              /\ created' = created

C13_NotFoundAfterClear == [][C13_Step]_vars

\* a user with a dispatched answer has cleared and then selected a format
C13_Witness ==
    /\ ev.op = "select"
    /\ ev.after = "clear"
    /\ ev.result = "notFound"
    /\ nex[ev.user] > 0
    /\ temp[ev.user] = EmptyDir

\* C14: dispatching an answer never renders a document: a dispatch leaves
\* every working area as it is, in the OFFERED mode it stores the answer as
\* the pending response, and a file appears in a user's working area only by
\* a format selection of that user that found a pending response.
C14_Step ==
    \A u \in Users :
        /\ Dispatches(u) => temp' = temp /\ created' = created
        /\ (Dispatches(u) /\ ev'.mode = "OFFERED") =>
              pending'[u] # NoPending /\ pending'[u] = nex'[u]
        /\ (temp'[u].files \ temp[u].files # {}) =>
              Selects(u) /\ pending[u] # NoPending

C14_NoDocumentBeforeSelection == [][C14_Step]_vars

\* a long answer has been offered: it is pending and no document exists
C14_Witness ==
    /\ ev.op = "dispatch"
    /\ ev.mode = "OFFERED"
    /\ ev.delivered
    /\ pending[ev.user] = nex[ev.user]
    /\ temp[ev.user].files = {}

\* C15: when the document build of a format selection fails (either variant)
\* or the delivery of the file raises, the user is sent a failure message and
\* the pending response is unchanged, so a later selection is attempted on
\* the same answer.
C15_Step ==
    \A u \in Users :
        (Selects(u) /\ ev'.result \in {"failed", "error"}) =>
            /\ ReplyOf(ev'.result) = "failureMessage"
            /\ pending' = pending
            /\ pending'[u] # NoPending
            /\ pending'[u] = ev'.rendered

C15_FailureKeepsPending == [][C15_Step]_vars

\* after a failed selection the user has selected again and the same answer
\* was rendered
C15_Witness ==
    /\ ev.op = "select"
    /\ ev.after = "failure"
    /\ ev.result = "made"
    /\ ev.rendered = pending[ev.user]
    /\ ev.rendered # NoPending

\* C16 (as stated): a failed document build leaves no partial artifact:
\* whenever a build (paginated or styled) fails, nothing is delivered and no
\* file written by that build, the intermediate markdown source included,
\* remains in the user's working area.
C16_Step ==
    \A u \in Users :
        (Selects(u) /\ ev'.result = "failed") =>
            /\ ReplyOf(ev'.result) # "document"
            /\ temp'[u].files \subseteq temp[u].files

C16_NoPartialArtifact == [][C16_Step]_vars

\* C17 (as stated): the two periodic triggers have separate targets: the
\* short-interval trigger (every 3 hours) deletes working-area files only and
\* never removes a transcript record.
C17_Step ==
    ev'.op = "periodic" => hist' = hist

C17_PeriodicKeepsTranscripts == [][C17_Step]_vars

\* C18 (as stated): when the daily trigger runs, the pending response and the
\* conversation context of every session are cleared: after the run and
\* before a new answer, a format selection reports answer-not-found and the
\* next model prompt of any chat contains no earlier exchange.
C18_DailyResetsSessions ==
    /\ ev.op = "daily" =>
          \A u \in Users : pending[u] = NoPending /\ PromptExchanges(conv, u) = 0
    /\ (ev.op = "select" /\ ev.after = "daily") => ev.result = "notFound"

\* the step is an on-access sweep, a clear or a run of a scheduled trigger
SweepsOrClears ==
    ev'.op \in {"select", "clear", "periodic", "daily"}

\* the working-area max-age a scheduled trigger runs with
HoursOf(op) == IF op = "periodic" THEN 3 ELSE 24

\* C19: no operation (on-access sweep, working-area sweep, clear, either
\* scheduled trigger) deletes a transcript record younger than 7 days,
\* whatever working-area max-age it runs with; and transcript pruning deletes
\* no working-area file: what a trigger removes from the working areas is
\* what it removes when the transcript areas are empty.
C19_Step ==
    /\ SweepsOrClears =>
          \A u \in Users : \A f \in hist[u] \ hist'[u] :
              ~(Age(f, now) < 7 * 24 * 3600)
    /\ (ev'.op \in {"periodic", "daily"} /\ ev'.ran) =>
          temp' = SweepAll(temp, [u \in Users |-> {}], now, HoursOf(ev'.op),
                           <<1, 2>>, NoFail).temp

C20_Step ==
    (ev'.op \in {"periodic", "daily"} /\ ev'.ran /\ ev'.fail # NoFail) =>
        \A v \in Users \ {ev'.fail.user} :
            /\ temp'[v] = SweepAllTemp(temp, now, HoursOf(ev'.op))[v]
            /\ hist'[v] = PruneAllHistory(hist, now)[v]

C20_ErrorsStayInNamespace == [][C20_Step]_vars

\* C21: a transcript write that fails is logged and not raised: the dispatch
\* step still stores the answer as the user's pending response, leaves the
\* transcript area as it was and chooses and performs the delivery as it does
\* when the write succeeds.
C21_Step ==
    \A u \in Users :
        (Dispatches(u) /\ ~ev'.wrote) =>
            LET good == ProcessResponse(hist[u], ev'.ans, now, nex[u] + 1, TRUE,
                                        ev'.delivered)
            IN  /\ hist' = hist
                /\ pending'[u] = nex'[u]
                /\ ev'.mode = good.mode
                /\ ev'.mode = ModeOf(ev'.ans)
                /\ ev'.delivered = good.delivered

C21_WriteFailureIsContained == [][C21_Step]_vars

\* the transcript write of an exchange failed, its answer was delivered and
\* is the pending response
C21_Witness ==
    /\ ev.op = "dispatch"
    /\ ~ev.wrote
    /\ ev.delivered
    /\ ~ExchangeRecorded
    /\ pending[ev.user] = nex[ev.user]

\* C22 (as stated): when the model call fails or returns an empty answer, the
\* answer is replaced by an error answer text that goes through the normal
\* dispatch (transcript write, mode choice, delivery): every answer that is
\* dispatched is a text of at least one character, and the answer dispatched
\* for a failed call or an empty answer is the error text.
C22_ErrorAnswerDispatched ==
    ev.op = "dispatch" =>
        /\ ev.ans.len > 0
        /\ ev.writes = 1
        /\ ev.mode = ModeOf(ev.ans)
        /\ ev.ans.len < MAX_TEXT_RESPONSE => ev.ans \in ErrorAnswers

\* C23 (as stated): an answer longer than MAX_TOTAL_CHARS characters is
\* truncated before it is dispatched: every answer text that reaches
\* process_response, and so the transcript and the document builders, has at
\* most MAX_TOTAL_CHARS (6000) characters.
C23_AnswerWithinLimit ==
    ev.op = "dispatch" => ev.ans.len <= MAX_TOTAL_CHARS

\* C24 (as stated): a 6500-character answer of plain prose is OFFERED, and
\* when its user then selects the paginated document, the build makes a
\* document of the truncated answer and create_temp_file is called exactly
\* once for that selection.
C24_Step ==
    \A u \in Users :
        (/\ ev.op = "dispatch"
         /\ ev.user = u
         /\ ev.ans = GetGeminiResponse(LongProse)
         /\ \E us \in 0 .. MaxCreates, sok \in BOOLEAN :
                SelectFormat(u, "pdf", us, TRUE, sok)) =>
            /\ ev.mode = "OFFERED"
            /\ ev'.rendered = pending[u]
            /\ created' = created + 1

C24_LongAnswerOneArtifact == [][C24_Step]_vars

\* C25 (as stated): the delivery mode is decided on the normalized text: the
\* answer passes through clean_markdown before its length and its line breaks
\* are measured, so the mode chosen for a raw text is the mode of its
\* normalized form and two raw answers with the same normalized form get the
\* same mode.
C25_ModeOfNormalizedText ==
    ev.op = "process_response" => ev.mode = ModeOfText(CleanMarkdown(ev.text))

\* C27: clean_markdown is idempotent: applied to its own result it returns
\* that result, clean_markdown(clean_markdown(T)) = clean_markdown(T).
C27_NormalizeIdempotent ==
    ev.op = "clean_markdown" =>
        /\ CleanMarkdown(ev.out) = ev.out
        /\ ev.again => ev.out = ev.text

\* clean_markdown was applied to a result of its own in which a backtick, a
\* line ending and a tab had been replaced
C27_Witness ==
    /\ ev.op = "clean_markdown"
    /\ ev.again
    /\ {QT, LF, SP} \subseteq Chars(ev.out)
    /\ Len(ev.out) > MaxTextLen

\* C28: for every text and every width W >= 1, _wrap_text returns (the
\* lines are computed) and every line has at most W characters, also for a
\* text without white space and for a text with runs of spaces.
C28_LinesWithinWidth ==
    ev.op = "_wrap_text" =>
        \A i \in 1 .. Len(ev.lines) : Len(ev.lines[i]) <= ev.width

\* a text with a run of spaces was wrapped in two lines, and a text without
\* white space was cut
C28_Witness ==
    /\ ev.op = "_wrap_text"
    /\ ev.width = 2
    /\ \/ ev.text = <<"a", SP, SP, "b">> /\ ev.lines = << <<"a", SP>>, <<"b">> >>
       \/ ev.text = <<"a", "b", "a">> /\ ev.lines = << <<"a", "b">>, <<"a">> >>

RECURSIVE Flatten(_)
Flatten(ss) == IF ss = <<>> THEN <<>> ELSE Head(ss) \o Flatten(Tail(ss))

\* the words of a line: its maximal runs of characters other than spaces
WordsOfLine(s) == SelectSeq(Split(s, SP), LAMBDA x : x # <<>>)

\* the words of the lines, read line by line
WordsOfLines(lines) ==
    Flatten([i \in 1 .. Len(lines) |-> WordsOfLine(lines[i])])

\* the consecutive fragments of width w of a word, the last one shorter when
\* w does not divide the length
Fragments(word, w) ==
    [i \in 1 .. (Len(word) + w - 1) \div w |->
        SubSeq(word, (i - 1) * w + 1,
               IF i * w <= Len(word) THEN i * w ELSE Len(word))]

\* the words of a text in their order, a word longer than w by its fragments
FragmentedWords(t, w) ==
    LET words == WordsOfLines(Split(t, LF))
    IN  Flatten([i \in 1 .. Len(words) |-> Fragments(words[i], w)])

\* C29: the words of the lines _wrap_text returns, read line by line, are
\* the words of the text in their order: no word is dropped, repeated or
\* moved, and a word longer than W appears as its consecutive fragments of
\* width W.
C29_WordsPreserved ==
    ev.op = "_wrap_text" =>
        WordsOfLines(ev.lines) = FragmentedWords(ev.text, ev.width)

\* a word and a longer word that was cut into its fragments
C29_Witness ==
    /\ ev.op = "_wrap_text"
    /\ ev.width = 1
    /\ ev.text = <<"b", SP, "a", "b">>
    /\ ev.lines = << <<"b">>, <<"a">>, <<"b">> >>

\* C26 (as stated): a document build for one user does not block unrelated
\* requests: while a build is running, the handling of another user's
\* request or a scheduled sweep can take a step.
C26_BuildDoesNotBlock ==
    ev.op = "building" => ENABLED UnrelatedWork(ev.user)

\* C30 (as stated): when a file vanishes while a sweep scans its directory,
\* the sweep skips that file and still examines every remaining file in the
\* same pass, deleting those older than maxAge: after the pass no file of
\* the directory is older than maxAge.
C30_ScanSurvivesVanishingFile ==
    ev.op = "scan" =>
        \A f \in temp[ev.user].files : ~(Age(f, now) > ev.maxAge)

\* the messages among the things _send_text_chunks did, in order
MessagesOf(emitted) == SelectSeq(emitted, LAMBDA e : e.kind = "message")

\* C31: _send_text_chunks sends the text as consecutive windows of at most
\* 1000 characters, in order and at most 5 of them, with a delay between
\* two consecutive windows and none after the last; together the windows are
\* the text, or its first 5000 characters when it is longer.
C31_ChunkedWindows ==
    ev.op = "_send_text_chunks" =>
        LET e == ev.emitted
            m == MessagesOf(e)
        IN  /\ Len(m) <= 5
            /\ \A i \in 1 .. Len(m) :
                  /\ m[i].to - m[i].from <= 1000
                  /\ m[i].to - m[i].from > 0
                  /\ m[i].from = IF i = 1 THEN 0 ELSE m[i - 1].to
            /\ ev.len > 0 => m[Len(m)].to = Smaller(ev.len, 5000)
            /\ ev.len = 0 => e = <<>>
            /\ \A i \in 1 .. Len(e) :
                  e[i].kind = (IF i % 2 = 1 THEN "message" ELSE "sleep")
            /\ e # <<>> => e[Len(e)].kind = "message"

\* a text of more than 5000 characters was sent as five windows with four
\* delays between them
C31_Witness ==
    /\ ev.op = "_send_text_chunks"
    /\ ev.len > 5000
    /\ Len(ev.emitted) = 9
    /\ ev.emitted[9] = [kind |-> "message", from |-> 4000, to |-> 5000]

\* C32: the answer section of the PDF holds the first 200 wrapped lines at
\* most, in order, the truncation note follows them if and only if the
\* wrapped answer has more than 200 lines, and the question is cut to 300
\* characters before it is wrapped.
C32_PdfLineLimit ==
    ev.op = "create_pdf" =>
        /\ Len(ev.section.rendered) <= 200
        /\ Len(ev.section.rendered) = Smaller(ev.lines, 200)
        /\ \A i \in 1 .. Len(ev.section.rendered) : ev.section.rendered[i] = i
        /\ ev.section.marker <=> ev.lines > 200
        /\ ev.excerpt <= 300
        /\ ev.excerpt = Smaller(ev.query, 300)

\* an answer of more than 200 lines was rendered with the note, its question
\* cut
C32_Witness ==
    /\ ev.op = "create_pdf"
    /\ ev.lines = 201
    /\ Len(ev.section.rendered) = 200
    /\ ev.section.marker
    /\ ev.query = 301
    /\ ev.excerpt = 300

\* C33 (as stated): in markdown_to_plain_text the code-fence rule is applied
\* before the backtick rule, so a fenced code region is stripped as a fence
\* (delimiters and language tag removed, body kept) and never consumed
\* piecewise by the inline rule: for a text whose backticks are all fence
\* delimiters, the result is what the code-fence rule makes of it.
C33_FenceStrippedAsFence ==
    (/\ ev.op = "markdown_to_plain_text"
     /\ CodeFenceRule(ev.text) # ev.text
     /\ BT \notin Chars(CodeFenceRule(ev.text))) =>
        ev.out = CodeFenceRule(ev.text)

\* C34 (as stated): clean_markdown replaces inline code delimiters by a
\* plain quote character and keeps a paragraph break after fenced code
\* regions: every backtick becomes an apostrophe, and in the output every
\* fenced-code delimiter of the input is followed by a line break (for a
\* text that begins with one, the fourth character of the output is a line
\* feed).
C34_FenceFollowedByBreak ==
    (ev.op = "clean_markdown" /\ ~ev.again) =>
        /\ BT \in Chars(ev.text) => QT \in Chars(ev.out)
        /\ (Len(ev.text) >= 3 /\ SubSeq(ev.text, 1, 3) = <<BT, BT, BT>>) =>
              (Len(ev.out) >= 4 /\ ev.out[4] = LF)

\* the entries of a conversation alternate, a user entry first
Alternates(h) ==
    \A i \in 1 .. Len(h) : h[i].role = IF i % 2 = 1 THEN "user" ELSE "assistant"

\* the last step was a question to the model, in the group chat
AskedInGroup == ev.op = "group_message" /\ ev.branch = "question"

\* C35: after any sequence of messages the conversation context of a chat
\* holds at most 10 entries, user and assistant entries alternating and a
\* user entry first; a model call that fails leaves the context as it was
\* (neither the question nor the error text is added), while the error text
\* is stored as the pending response, written to the transcript and
\* dispatched.
C35_ContextBoundedAndAlternating ==
    /\ Len(groupConv) <= CONTEXT_ENTRIES
    /\ Alternates(groupConv)
    /\ \A u \in Users : conv[u] <= MAX_CONTEXT
    /\ (AskedInGroup /\ ev.failed) =>
          /\ groupConv = ev.before
          /\ ev.ans \in ErrorAnswers
          /\ ev.writes = 1
          /\ pending[ev.user] = nex[ev.user]
          /\ \E f \in hist[ev.user] : f.ex = nex[ev.user]

\* a model call fails in a chat whose context is full
C35_Witness ==
    /\ AskedInGroup
    /\ ev.failed
    /\ Len(groupConv) = CONTEXT_ENTRIES

\* the step is a message addressed to the bot in the group chat by a user
\* who is not registered
AddressedByUnregistered ==
    /\ ev'.op = "group_message"
    /\ ev'.addressed
    /\ ev'.user \notin botData.registered

\* C36: a message addressed to the bot in the group chat by a user who is
\* not registered causes no model call, no transcript write, no change of a
\* pending response and no change of a conversation context; no user is sent
\* the registration warning more than once; and no step, the daily reset
\* included, takes a user out of the registered users.
C36_Step ==
    /\ AddressedByUnregistered =>
          /\ UNCHANGED <<hist, pending, conv, groupConv, nex>>
          /\ ev'.branch = "unregistered"
    /\ \A u \in Users : warnings'[u] <= 1
    /\ botData.registered \subseteq botData'.registered

C36_UnregisteredUserIsInert == [][C36_Step]_vars

\* a warned user who is still not registered addresses the bot again, in a
\* group chat with a conversation, and is sent nothing
C36_Witness ==
    /\ ev.op = "group_message"
    /\ ev.branch = "unregistered"
    /\ ~ev.warned
    /\ warnings[ev.user] = 1
    /\ ev.user \in botData.warned
    /\ groupConv # <<>>

\* C37 (as stated): every run of the daily trigger performs its file sweep,
\* the working areas with a max-age of 24 hours and the transcript areas with
\* one of 7 days, also when the reset of the sessions in the same run raises;
\* no error leaves the trigger.
C37_Step ==
    ev'.op = "daily" =>
        /\ temp' = SweepAllTemp(temp, now, DAILY_SWEEP_HOURS)
        /\ hist' = PruneAllHistory(hist, now)

C37_DailyAlwaysSweeps == [][C37_Step]_vars

\* C38 (as stated): a clear request by one user changes the in-memory
\* session state of that user only: the pending response of every other user
\* and the conversation context that goes into the prompts of every other
\* user are the same before and after it, also for the other users of the
\* same group chat.
C38_Step ==
    ev'.op = "clear" =>
        \A v \in Users \ {ev'.user} :
            /\ pending'[v] = pending[v]
            /\ conv'[v] = conv[v]
            /\ (\E i \in 1 .. Len(groupConv) : groupConv[i].user = v) =>
                  groupConv' = groupConv

C38_ClearTouchesOneUser == [][C38_Step]_vars

====
